---- MODULE Spec2Model ----
(***************************************************************************)
(* Model of vegmapper/s1/opera_rtc_build_vrt.py: the parallel tile mosaic  *)
(* builder (build_opera_vrt / process_row), the tile existence auditor     *)
(* (check_tiles_exist) and the full-area mosaic assembler                  *)
(* (create_vrt_mosaic).                                                    *)
(*                                                                         *)
(* A raster file <rtc_dir>/<burst>_tmean_<pol>.tif is the pair             *)
(* <<burst, pol>>; its reprojected path (line 88, the same name with       *)
(* '.tif' replaced by '_reprojected.vrt') is the same pair looked up in    *)
(* the variables that hold reprojected paths.  A tile output (lines 83-84) *)
(* is the pair <<tile, pol>>.                                              *)
(***************************************************************************)
EXTENDS Naturals, Sequences, FiniteSets, TLC

\* the rows of burst2tile_gdf, in iterrows order: two tiles, processed by two
\* concurrent tasks
grid == <<"h0v0", "h1v0">>
NTiles == Len(grid)

\* ---------------------------------------------------------------- bounds
\* burst ids are 1..NBursts
NBursts == 2
\* rows of the GeoDataFrame given to check_tiles_exist
NRows == 3

Tiles == 1..NTiles
Bursts == 1..NBursts
Rows == 1..NRows

\* polarizations = ['VV', 'VH'] (line 139)
polarizations == <<"VV", "VH">>
Pols == {polarizations[i] : i \in 1..Len(polarizations)}

\* tile_gdf.index.map(overlap_dict) leaves NaN (a float) for a tile that no
\* burst overlaps (lines 39-42); it is written here as the one-element list
\* of 0, which is no burst id
NaN == <<0>>

VARIABLES
    \* ---- inputs of build_opera_vrt (read-only during the run)
    mask,              \* row['mask'] per tile
    overlapping,       \* row['overlapping_bursts'] per tile: a list or NaN
    srcDisk,           \* source rasters present on disk
    preReproj,         \* reprojected files an earlier run left on disk
    \* ---- file system
    reprojDisk,        \* reprojected virtual rasters present at their final path
    tempDisk,          \* tasks whose NamedTemporaryFile currently exists
    mosaicDisk,        \* mosaic_h*_v*_<pol>.vrt files present
    tifDisk,           \* tile_h*_v*_<pol>.tif files present
    \* ---- build_opera_vrt
    created_files,     \* the shared set (line 143)
    mainpc,            \* position of the calling thread
    nsub,              \* number of futures submitted so far
    cidx,              \* index of the future being collected (line 152)
    mainExc,           \* exception leaving build_opera_vrt, or "none"
    \* ---- process_row, one task per tile
    pc,                \* position of each task
    exc,               \* exception stored in the task's future, or "none"
    polIdx,            \* index of pol in polarizations (line 79)
    files_2_merge,     \* line 81
    fileIdx,           \* index of file in files_2_merge (line 87)
    reprojected_files, \* line 86 / 113
    pending,           \* exception caught by the except clause (line 107)
    \* ---- history of what each task did
    attempts,          \* per reprojected path: times line 93 was entered
    warpCalls,         \* per reprojected path: gdalwarp reprojections invoked
    cacheAdds,         \* per task: the paths it added to created_files
    vrtCalls,          \* gdalbuildvrt invocations
    cropCalls,         \* crop gdalwarp invocations
    envFault,          \* per task: a tool or rename failed on its own account
    failedAt,          \* per task: the step that raised
    publishedBy,       \* per reprojected path: the tasks that renamed a file into it
    \* ---- check_tiles_exist
    gdfMask,           \* row['mask'] of each row of gdf
    pathFiles,         \* the tile files present under path, as <<row, pol>>
    auditIdx,          \* rows visited so far (line 170)
    results, all_exist, tile_confirmation,
    \* ---- create_vrt_mosaic
    dirFiles, mospc, builtVrt, printed

buildVars == <<mask, overlapping, srcDisk, preReproj, reprojDisk, tempDisk,
               mosaicDisk, tifDisk, created_files, mainpc, nsub, cidx, mainExc, pc, exc, polIdx,
               files_2_merge, fileIdx, reprojected_files, pending, attempts,
               warpCalls, cacheAdds, vrtCalls, cropCalls, envFault, failedAt,
               publishedBy>>
auditVars == <<gdfMask, pathFiles, auditIdx, results, all_exist, tile_confirmation>>
mosaicVars == <<dirFiles, mospc, builtVrt, printed>>
vars == <<buildVars, auditVars, mosaicVars>>

\* ------------------------------------------------------------ helpers
\* the values row['overlapping_bursts'] is drawn from: NaN, or the list of the
\* bursts a tile overlaps: none, one, or two neighbouring ones
BurstLists ==
    {NaN, <<>>} \cup {<<b>> : b \in Bursts}
                \cup {<<b, b + 1>> : b \in {x \in Bursts : x + 1 \in Bursts}}

FullList == CHOOSE l \in BurstLists : \A m \in BurstLists : Len(m) <= Len(l)

Range(s) == {s[i] : i \in 1..Len(s)}

RECURSIVE SelectExisting(_, _, _)
\* lines 80-81: the listed files, in order, that exist on disk
SelectExisting(names, pol, disk) ==
    IF names = <<>> THEN <<>>
    ELSE LET rest == SelectExisting(Tail(names), pol, disk)
         IN IF <<Head(names), pol>> \in disk
            THEN <<<<Head(names), pol>>>> \o rest
            ELSE rest

AllPaths == Bursts \X Pols

\* ------------------------------------------------------------ initial states
\* State of the builder right after line 143: nothing submitted, an empty
\* created_files, no temporary, mosaic or tile file; the grid, the source
\* rasters on disk and the reprojected files left by an earlier run are inputs.
BuildInit(pre) ==
    /\ preReproj = pre
    /\ reprojDisk = pre
    /\ publishedBy = [p \in AllPaths |-> {}]
    /\ tempDisk = {}
    /\ mosaicDisk = {}
    /\ tifDisk = {}
    /\ created_files = {}
    /\ mainpc = "submit"
    /\ nsub = 0
    /\ cidx = 1
    /\ mainExc = "none"
    /\ pc = [t \in Tiles |-> "unsubmitted"]
    /\ exc = [t \in Tiles |-> "none"]
    /\ polIdx = [t \in Tiles |-> 1]
    /\ files_2_merge = [t \in Tiles |-> <<>>]
    /\ fileIdx = [t \in Tiles |-> 1]
    /\ reprojected_files = [t \in Tiles |-> <<>>]
    /\ pending = [t \in Tiles |-> "none"]
    /\ attempts = [p \in AllPaths |-> 0]
    /\ warpCalls = [p \in AllPaths |-> 0]
    /\ cacheAdds = [t \in Tiles |-> {}]
    /\ vrtCalls = {}
    /\ cropCalls = {}
    /\ envFault = [t \in Tiles |-> FALSE]
    /\ failedAt = [t \in Tiles |-> "none"]

\* lines 167-168
AuditStart ==
    /\ auditIdx = 0
    /\ results = [r \in Rows |-> [VV |-> "unset", VH |-> "unset"]]
    /\ all_exist = TRUE
    /\ tile_confirmation = "none"

AuditIdle ==
    /\ gdfMask = [r \in Rows |-> 0]
    /\ pathFiles = {}
    /\ AuditStart

MosaicIdle ==
    /\ dirFiles = {}
    /\ mospc = "listVV"
    /\ builtVrt = {}
    /\ printed = <<>>

\* The inputs drawn.  Source rasters of a burst are on disk for both channels
\* or for none; an earlier run may have left the reprojected file of any of
\* them (the reprojected file of a missing source is never looked at).  The
\* contributor list of an inactive tile is never read (line 70 returns before
\* line 73), so inactive tiles all carry one list, a longest one.
FilesOf(S) == S \X Pols

GridOk ==
    \A t \in Tiles : mask[t] = 0 => overlapping[t] = FullList

Init ==
    /\ mask \in [Tiles -> {0, 1}]
    /\ overlapping \in [Tiles -> BurstLists]
    /\ GridOk
    /\ \E S \in SUBSET Bursts :
         /\ srcDisk = FilesOf(S)
         /\ \E pre \in SUBSET srcDisk : BuildInit(pre)
    /\ AuditIdle
    /\ MosaicIdle

\* ------------------------------------------------------------ build_opera_vrt
\* the pol, the file and the reprojected path a task is working on
Pol(t) == polarizations[polIdx[t]]
File(t) == files_2_merge[t][fileIdx[t]]

Raise(t, e, where) ==
    /\ pc' = [pc EXCEPT ![t] = "done"]
    /\ exc' = [exc EXCEPT ![t] = e]
    /\ failedAt' = [failedAt EXCEPT ![t] = where]

\* line 113 and the loop header of line 87: append, then the next file or line 116
AfterFile(t) ==
    /\ reprojected_files' = [reprojected_files EXCEPT ![t] = Append(@, File(t))]
    /\ fileIdx' = [fileIdx EXCEPT ![t] = @ + 1]
    /\ pc' = [pc EXCEPT ![t] = IF fileIdx[t] + 1 > Len(files_2_merge[t])
                                THEN "buildvrt" ELSE "check"]

\* lines 147-150: executor.submit, one future per row, in row order
Submit ==
    /\ mainpc = "submit"
    /\ nsub < NTiles
    /\ nsub' = nsub + 1
    /\ pc' = [pc EXCEPT ![nsub + 1] = "queued"]
    /\ mainpc' = IF nsub + 1 = NTiles THEN "collect" ELSE "submit"
    /\ UNCHANGED <<mask, overlapping, srcDisk, preReproj, publishedBy, reprojDisk,
                   tempDisk, mosaicDisk, tifDisk, created_files, cidx, mainExc, exc, polIdx,
                   files_2_merge, fileIdx, reprojected_files, pending, attempts,
                   warpCalls, cacheAdds, vrtCalls, cropCalls, envFault, failedAt>>
    /\ UNCHANGED <<auditVars, mosaicVars>>

\* lines 152-153: future.result() blocks until the future is done and re-raises
\* the task's exception
Collect ==
    /\ mainpc = "collect"
    /\ pc[cidx] = "done"
    /\ IF exc[cidx] # "none"
       THEN /\ mainExc' = exc[cidx]
            /\ mainpc' = "exit"
            /\ cidx' = cidx
       ELSE /\ mainExc' = mainExc
            /\ cidx' = cidx + 1
            /\ mainpc' = IF cidx = NTiles THEN "exit" ELSE "collect"
    /\ UNCHANGED <<mask, overlapping, srcDisk, preReproj, publishedBy, reprojDisk,
                   tempDisk, mosaicDisk, tifDisk, created_files, nsub, pc, exc, polIdx,
                   files_2_merge, fileIdx, reprojected_files, pending, attempts,
                   warpCalls, cacheAdds, vrtCalls, cropCalls, envFault, failedAt>>
    /\ UNCHANGED <<auditVars, mosaicVars>>

\* an executor that is not joined, as with shutdown(wait=False)
ExecutorNotJoined == TRUE

\* line 146: leaving the with block runs executor.shutdown(wait=True)
ExecutorJoined == \A t \in Tiles : pc[t] \in {"unsubmitted", "done"}

ExitWith ==
    /\ mainpc = "exit"
    /\ ExecutorJoined
    /\ mainpc' = IF mainExc = "none" THEN "returned" ELSE "raised"
    /\ UNCHANGED <<mask, overlapping, srcDisk, preReproj, publishedBy, reprojDisk,
                   tempDisk, mosaicDisk, tifDisk, created_files, nsub, cidx, mainExc, pc, exc, polIdx,
                   files_2_merge, fileIdx, reprojected_files, pending, attempts,
                   warpCalls, cacheAdds, vrtCalls, cropCalls, envFault, failedAt>>
    /\ UNCHANGED <<auditVars, mosaicVars>>

\* ------------------------------------------------------------ process_row
inputVars == <<mask, overlapping, srcDisk, preReproj>>
mainVars == <<mainpc, nsub, cidx, mainExc>>

\* the mask test left out: every row is processed
IsInactiveNever(t) == FALSE

\* line 70: the row is skipped
IsInactive(t) == mask[t] = 0

\* A worker thread takes the task and runs lines 69-77.
StartTask(t) ==
    /\ pc[t] = "queued"
    /\ pc' = [pc EXCEPT ![t] = IF IsInactive(t) THEN "done" ELSE "pol"]
    /\ UNCHANGED <<inputVars, mainVars, publishedBy, reprojDisk, tempDisk, mosaicDisk, tifDisk,
                   created_files, exc, polIdx, files_2_merge, fileIdx,
                   reprojected_files, pending, attempts, warpCalls, cacheAdds,
                   vrtCalls, cropCalls, envFault, failedAt>>
    /\ UNCHANGED <<auditVars, mosaicVars>>

\* lines 79-86: iterating NaN raises TypeError; otherwise the listed files that
\* exist on disk, and an empty reprojected_files
BeginPol(t) ==
    /\ pc[t] = "pol"
    /\ IF overlapping[t] = NaN
       THEN /\ Raise(t, "TypeError", "iter")
            /\ UNCHANGED <<files_2_merge, fileIdx, reprojected_files>>
       ELSE LET files == SelectExisting(overlapping[t], Pol(t), srcDisk)
            IN /\ files_2_merge' = [files_2_merge EXCEPT ![t] = files]
               /\ fileIdx' = [fileIdx EXCEPT ![t] = 1]
               /\ reprojected_files' = [reprojected_files EXCEPT ![t] = <<>>]
               /\ pc' = [pc EXCEPT ![t] = IF files = <<>> THEN "buildvrt" ELSE "check"]
               /\ UNCHANGED <<exc, failedAt>>
    /\ UNCHANGED <<inputVars, mainVars, publishedBy, reprojDisk, tempDisk, mosaicDisk, tifDisk,
                   created_files, polIdx, pending, attempts, warpCalls, cacheAdds,
                   vrtCalls, cropCalls, envFault>>
    /\ UNCHANGED <<auditVars, mosaicVars>>

\* line 90: the membership test; nothing is held between it and line 91
CheckCache(t) ==
    /\ pc[t] = "check"
    /\ IF File(t) \in created_files
       THEN AfterFile(t)
       ELSE /\ pc' = [pc EXCEPT ![t] = "add"]
            /\ UNCHANGED <<fileIdx, reprojected_files>>
    /\ UNCHANGED <<inputVars, mainVars, publishedBy, reprojDisk, tempDisk, mosaicDisk, tifDisk,
                   created_files, exc, polIdx, files_2_merge, pending, attempts,
                   warpCalls, cacheAdds, vrtCalls, cropCalls, envFault, failedAt>>
    /\ UNCHANGED <<auditVars, mosaicVars>>

\* line 91
AddToCache(t) ==
    /\ pc[t] = "add"
    /\ created_files' = created_files \cup {File(t)}
    /\ cacheAdds' = [cacheAdds EXCEPT ![t] = @ \cup {File(t)}]
    /\ pc' = [pc EXCEPT ![t] = "exists"]
    /\ UNCHANGED <<inputVars, mainVars, publishedBy, reprojDisk, tempDisk, mosaicDisk, tifDisk,
                   exc, polIdx, files_2_merge, fileIdx, reprojected_files, pending,
                   attempts, warpCalls, vrtCalls, cropCalls, envFault, failedAt>>
    /\ UNCHANGED <<auditVars, mosaicVars>>

\* line 92: a reprojected file left on disk is reused; otherwise line 93 is entered
CheckExists(t) ==
    /\ pc[t] = "exists"
    /\ IF File(t) \in reprojDisk
       THEN /\ AfterFile(t)
            /\ UNCHANGED attempts
       ELSE /\ attempts' = [attempts EXCEPT ![File(t)] = @ + 1]
            /\ pc' = [pc EXCEPT ![t] = "tempfile"]
            /\ UNCHANGED <<fileIdx, reprojected_files>>
    /\ UNCHANGED <<inputVars, mainVars, publishedBy, reprojDisk, tempDisk, mosaicDisk, tifDisk,
                   created_files, exc, polIdx, files_2_merge, pending,
                   warpCalls, cacheAdds, vrtCalls, cropCalls, envFault, failedAt>>
    /\ UNCHANGED <<auditVars, mosaicVars>>

\* line 94 in the module as it stands: tempfile is not among the imports of
\* lines 3-9, so the name lookup raises NameError, outside the try of line 96
TempfileNameError(t) ==
    /\ pc[t] = "tempfile"
    /\ Raise(t, "NameError", "tempfile")
    /\ UNCHANGED <<inputVars, mainVars, publishedBy, reprojDisk, tempDisk, mosaicDisk, tifDisk,
                   created_files, polIdx, files_2_merge, fileIdx, reprojected_files,
                   pending, attempts, warpCalls, cacheAdds, vrtCalls, cropCalls,
                   envFault>>
    /\ UNCHANGED <<auditVars, mosaicVars>>

\* lines 94-95 with the name tempfile bound: an empty file of a fresh name
CreateTemp(t) ==
    /\ pc[t] = "tempfile"
    /\ tempDisk' = tempDisk \cup {t}
    /\ pc' = [pc EXCEPT ![t] = "warp"]
    /\ UNCHANGED <<inputVars, mainVars, publishedBy, reprojDisk, mosaicDisk, tifDisk,
                   created_files, exc, polIdx, files_2_merge, fileIdx,
                   reprojected_files, pending, attempts, warpCalls, cacheAdds,
                   vrtCalls, cropCalls, envFault, failedAt>>
    /\ UNCHANGED <<auditVars, mosaicVars>>

\* lines 97-105: gdalwarp into the temporary path; check=True raises on failure
WarpReproject(t) ==
    /\ pc[t] = "warp"
    /\ warpCalls' = [warpCalls EXCEPT ![File(t)] = @ + 1]
    /\ \E ok \in BOOLEAN :
         IF ok
         THEN /\ pc' = [pc EXCEPT ![t] = "rename"]
              /\ UNCHANGED <<pending, envFault>>
         ELSE /\ pc' = [pc EXCEPT ![t] = "except"]
              /\ pending' = [pending EXCEPT ![t] = "CalledProcessError"]
              /\ envFault' = [envFault EXCEPT ![t] = TRUE]
    /\ UNCHANGED <<inputVars, mainVars, publishedBy, reprojDisk, tempDisk, mosaicDisk, tifDisk,
                   created_files, exc, polIdx, files_2_merge, fileIdx,
                   reprojected_files, attempts, cacheAdds, vrtCalls, cropCalls,
                   failedAt>>
    /\ UNCHANGED <<auditVars, mosaicVars>>

\* line 106: os.rename publishes the temporary file at the final path in one
\* step, replacing a file already there, or raises OSError and moves nothing
RenameTemp(t) ==
    /\ pc[t] = "rename"
    /\ \E ok \in BOOLEAN :
         IF ok
         THEN /\ tempDisk' = tempDisk \ {t}
              /\ reprojDisk' = reprojDisk \cup {File(t)}
              /\ publishedBy' = [publishedBy EXCEPT ![File(t)] = @ \cup {t}]
              /\ AfterFile(t)
              /\ UNCHANGED <<pending, envFault>>
         ELSE /\ pc' = [pc EXCEPT ![t] = "except"]
              /\ pending' = [pending EXCEPT ![t] = "OSError"]
              /\ envFault' = [envFault EXCEPT ![t] = TRUE]
              /\ UNCHANGED <<tempDisk, reprojDisk, fileIdx, reprojected_files, publishedBy>>
    /\ UNCHANGED <<inputVars, mainVars, mosaicDisk, tifDisk, created_files, exc,
                   polIdx, files_2_merge, attempts, warpCalls, cacheAdds, vrtCalls,
                   cropCalls, failedAt>>
    /\ UNCHANGED <<auditVars, mosaicVars>>

\* the except clause without its os.remove
CleanupTempSkipped(t) == tempDisk

\* lines 109-110: the temporary file is removed if it is there
CleanupTemp(t) == tempDisk \ {t}

\* lines 107-111: the except clause cleans up and re-raises
ExceptCleanup(t) ==
    /\ pc[t] = "except"
    /\ tempDisk' = CleanupTemp(t)
    /\ Raise(t, pending[t], IF pending[t] = "OSError" THEN "rename" ELSE "warp")
    /\ UNCHANGED <<inputVars, mainVars, publishedBy, reprojDisk, mosaicDisk, tifDisk,
                   created_files, polIdx, files_2_merge, fileIdx, reprojected_files,
                   pending, attempts, warpCalls, cacheAdds, vrtCalls, cropCalls,
                   envFault>>
    /\ UNCHANGED <<auditVars, mosaicVars>>

\* lines 116-117: gdalbuildvrt over reprojected_files.  The tool skips an input
\* it cannot open and exits non-zero when it is left with no input at all; it
\* may also fail on its own account.
BuildVrt(t) ==
    /\ pc[t] = "buildvrt"
    /\ LET inputs == reprojected_files[t]
           missing == Range(inputs) \ reprojDisk
           usable == Range(inputs) \cap reprojDisk
       IN /\ vrtCalls' = vrtCalls \cup
                 {[tile |-> t, pol |-> Pol(t), inputs |-> inputs, unpublished |-> missing]}
          /\ \E ok \in BOOLEAN :
               IF usable = {}
               THEN /\ Raise(t, "CalledProcessError", "buildvrt")
                    /\ UNCHANGED <<mosaicDisk, envFault>>
               ELSE IF ok
               THEN /\ mosaicDisk' = mosaicDisk \cup {<<t, Pol(t)>>}
                    /\ pc' = [pc EXCEPT ![t] = "crop"]
                    /\ UNCHANGED <<exc, failedAt, envFault>>
               ELSE /\ Raise(t, "CalledProcessError", "buildvrt")
                    /\ envFault' = [envFault EXCEPT ![t] = TRUE]
                    /\ UNCHANGED mosaicDisk
    /\ UNCHANGED <<inputVars, mainVars, publishedBy, reprojDisk, tempDisk, tifDisk,
                   created_files, polIdx, files_2_merge, fileIdx, reprojected_files,
                   pending, attempts, warpCalls, cacheAdds, cropCalls>>
    /\ UNCHANGED <<auditVars, mosaicVars>>

\* lines 120-132: gdalwarp -overwrite crops the mosaic to the tile; then the
\* next pol of line 79, or the function returns
CropTile(t) ==
    /\ pc[t] = "crop"
    /\ cropCalls' = cropCalls \cup {<<t, Pol(t)>>}
    /\ \E ok \in BOOLEAN :
         IF ok
         THEN /\ tifDisk' = tifDisk \cup {<<t, Pol(t)>>}
              /\ IF polIdx[t] < Len(polarizations)
                 THEN /\ polIdx' = [polIdx EXCEPT ![t] = @ + 1]
                      /\ pc' = [pc EXCEPT ![t] = "pol"]
                 ELSE /\ pc' = [pc EXCEPT ![t] = "done"]
                      /\ UNCHANGED polIdx
              /\ UNCHANGED <<exc, failedAt, envFault>>
         ELSE /\ Raise(t, "CalledProcessError", "crop")
              /\ envFault' = [envFault EXCEPT ![t] = TRUE]
              /\ UNCHANGED <<tifDisk, polIdx>>
    /\ UNCHANGED <<inputVars, mainVars, publishedBy, reprojDisk, tempDisk, mosaicDisk,
                   created_files, files_2_merge, fileIdx, reprojected_files,
                   pending, attempts, warpCalls, cacheAdds, vrtCalls>>
    /\ UNCHANGED <<auditVars, mosaicVars>>

\* steps of process_row that do not depend on line 94
TaskStep(t) ==
    \/ StartTask(t)
    \/ BeginPol(t)
    \/ CheckCache(t)
    \/ AddToCache(t)
    \/ CheckExists(t)
    \/ BuildVrt(t)
    \/ CropTile(t)

\* the builder of the module as it stands
Next ==
    \/ Submit
    \/ Collect
    \/ ExitWith
    \/ \E t \in Tiles : TaskStep(t)
    \/ \E t \in Tiles : TempfileNameError(t)

Spec == Init /\ [][Next]_vars

\* the builder with the name tempfile bound at line 94, lines 94-111 as written
NextTmp ==
    \/ Submit
    \/ Collect
    \/ ExitWith
    \/ \E t \in Tiles : TaskStep(t)
    \/ \E t \in Tiles : CreateTemp(t)
    \/ \E t \in Tiles : WarpReproject(t)
    \/ \E t \in Tiles : RenameTemp(t)
    \/ \E t \in Tiles : ExceptCleanup(t)

\* a first run: no reprojected file is on disk yet, so every source is reprojected
InitTmp == Init /\ reprojDisk = {}

SpecTmp == InitTmp /\ [][NextTmp]_vars

\* ------------------------------------------------------------ check_tiles_exist
\* os.path.exists as Python prints it; None marks a tile nothing is expected of
PyBool(b) == IF b THEN "True" ELSE "False"

\* 'or' in place of 'and': one tile of the two is taken to be enough
RowCompleteEither(vv_exists, vh_exists) == vv_exists \/ vh_exists

\* line 189: the row has both of its tiles
RowComplete(vv_exists, vh_exists) == vv_exists /\ vh_exists

\* lines 170-193: one iteration of the loop over the rows
AuditRow ==
    /\ auditIdx < NRows
    /\ LET r == auditIdx + 1
           vv_exists == <<r, "VV">> \in pathFiles
           vh_exists == <<r, "VH">> \in pathFiles
       IN IF gdfMask[r] = 1
          THEN /\ results' = [results EXCEPT ![r] =
                                 [VV |-> PyBool(vv_exists), VH |-> PyBool(vh_exists)]]
               /\ all_exist' = IF ~RowComplete(vv_exists, vh_exists)
                               THEN FALSE ELSE all_exist
          ELSE /\ results' = [results EXCEPT ![r] = [VV |-> "None", VH |-> "None"]]
               /\ UNCHANGED all_exist
    /\ auditIdx' = auditIdx + 1
    /\ UNCHANGED <<gdfMask, pathFiles, tile_confirmation>>
    /\ UNCHANGED <<buildVars, mosaicVars>>

\* lines 196-203: the verdict, after the loop
AuditVerdict ==
    /\ auditIdx = NRows
    /\ tile_confirmation = "none"
    /\ tile_confirmation' = IF all_exist THEN "All tiles exist" ELSE "Tiles not found"
    /\ UNCHANGED <<gdfMask, pathFiles, auditIdx, results, all_exist>>
    /\ UNCHANGED <<buildVars, mosaicVars>>

NextAudit == AuditRow \/ AuditVerdict

\* check_tiles_exist on any grid and any set of tile files in the directory
InitAudit ==
    /\ mask = [t \in Tiles |-> 0]
    /\ overlapping = [t \in Tiles |-> FullList]
    /\ srcDisk = {}
    /\ BuildInit({})
    /\ gdfMask \in [Rows -> {0, 1}]
    /\ pathFiles \in SUBSET (Rows \X Pols)
    /\ AuditStart
    /\ MosaicIdle

SpecAudit == InitAudit /\ [][NextAudit]_vars

\* ------------------------------------------------------------ create_vrt_mosaic
\* File names are sequences of characters.
PolChars(pol) == IF pol = "VV" THEN <<"V", "V">> ELSE <<"V", "H">>

\* line 83: tile_h{h}_v{v}_{pol}.tif
TileName(t, pol) ==
    <<"t", "i", "l", "e", "_">>
    \o (IF t = 1 THEN <<"h", "0", "_", "v", "0">> ELSE <<"h", "1", "_", "v", "0">>)
    \o <<"_">> \o PolChars(pol) \o <<".", "t", "i", "f">>

\* lines 224 and 237: tile_mosaic_{pol}.vrt
MosaicName(pol) ==
    <<"t", "i", "l", "e", "_", "m", "o", "s", "a", "i", "c", "_">>
    \o PolChars(pol) \o <<".", "v", "r", "t">>

\* str.endswith
EndsWith(s, suffix) ==
    /\ Len(s) >= Len(suffix)
    /\ SubSeq(s, Len(s) - Len(suffix) + 1, Len(s)) = suffix

\* lines 217 and 230: the files of the directory ending in VV.tif / VH.tif
TileFiles(pol) ==
    {f \in dirFiles : EndsWith(f, PolChars(pol) \o <<".", "t", "i", "f">>)}

\* lines 217-221
ListVV ==
    /\ mospc = "listVV"
    /\ IF TileFiles("VV") = {}
       THEN /\ printed' = Append(printed, "No tiles found ending in *VV.tif")
            /\ mospc' = "returned"
       ELSE /\ mospc' = "buildVV"
            /\ UNCHANGED printed
    /\ UNCHANGED <<dirFiles, builtVrt>>
    /\ UNCHANGED <<buildVars, auditVars>>

\* lines 224-227
BuildVV ==
    /\ mospc = "buildVV"
    /\ dirFiles' = dirFiles \cup {MosaicName("VV")}
    /\ builtVrt' = builtVrt \cup {"VV"}
    /\ printed' = Append(printed, "VRT mosaic created: VV")
    /\ mospc' = "listVH"
    /\ UNCHANGED <<buildVars, auditVars>>

\* lines 230-234
ListVH ==
    /\ mospc = "listVH"
    /\ IF TileFiles("VH") = {}
       THEN /\ printed' = Append(printed, "No tiles found ending in *VH.tif")
            /\ mospc' = "returned"
       ELSE /\ mospc' = "buildVH"
            /\ UNCHANGED printed
    /\ UNCHANGED <<dirFiles, builtVrt>>
    /\ UNCHANGED <<buildVars, auditVars>>

\* lines 237-240
BuildVH ==
    /\ mospc = "buildVH"
    /\ dirFiles' = dirFiles \cup {MosaicName("VH")}
    /\ builtVrt' = builtVrt \cup {"VH"}
    /\ printed' = Append(printed, "VRT mosaic created: VH")
    /\ mospc' = "returned"
    /\ UNCHANGED <<buildVars, auditVars>>

NextMosaic == ListVV \/ BuildVV \/ ListVH \/ BuildVH

\* the names a directory listing is drawn from: the tile rasters of the grid,
\* the mosaics of an earlier call, and the file build_opera_vrt's caller leaves
DirNames ==
    {TileName(t, pol) : t \in Tiles, pol \in Pols}
    \cup {MosaicName(pol) : pol \in Pols}
    \cup {<<"b", "u", "r", "s", "t", "_", "t", "o", "_", "t", "i", "l", "e", "_",
            "m", "a", "p", ".", "c", "s", "v">>}

\* create_vrt_mosaic on any directory listing
InitMosaic ==
    /\ mask = [t \in Tiles |-> 1]
    /\ overlapping = [t \in Tiles |-> FullList]
    /\ srcDisk = {}
    /\ BuildInit({})
    /\ AuditIdle
    /\ dirFiles \in SUBSET DirNames
    /\ mospc = "listVV"
    /\ builtVrt = {}
    /\ printed = <<>>

SpecMosaic == InitMosaic /\ [][NextMosaic]_vars

\* ------------------------------------------------------------ properties
Active(t) == mask[t] = 1
Finished == mainpc \in {"returned", "raised"}
PolIdxs == 1..Len(polarizations)

\* the files_2_merge of (tile, pol): empty also when the list is NaN
MergeList(t, i) ==
    IF overlapping[t] = NaN THEN <<>>
    ELSE SelectExisting(overlapping[t], polarizations[i], srcDisk)

\* C1: in one run each source raster file is reprojected at most once: line 93
\* is never entered twice for the same reprojected path, by two tasks or by one.
C1_ReprojectedAtMostOnce ==
    \A p \in AllPaths : attempts[p] <= 1

\* C2: every gdalbuildvrt invocation finds all of its inputs published at their
\* final paths, and the crop of a (tile, pol) starts only once its mosaic is built.
C2_InputsPublishedBeforeMosaic ==
    /\ \A c \in vrtCalls : c.unpublished = {}
    /\ \A tp \in cropCalls : tp \in mosaicDisk

\* C3: a tile whose mask is 0 invokes no tool, creates no file and adds
\* nothing to created_files.
C3_InactiveTileNoEffect ==
    \A t \in Tiles :
        mask[t] = 0 =>
            /\ cacheAdds[t] = {}
            /\ \A c \in vrtCalls : c.tile # t
            /\ \A pol \in Pols : /\ <<t, pol>> \notin cropCalls
                                 /\ <<t, pol>> \notin mosaicDisk
                                 /\ <<t, pol>> \notin tifDisk
            /\ t \notin tempDisk
            /\ \A p \in AllPaths : t \notin publishedBy[p]
            /\ exc[t] = "none"

C3_Witness ==
    \E t \in Tiles :
        /\ mask[t] = 0
        /\ pc[t] = "done"
        /\ \E b \in Range(overlapping[t]) :
               /\ <<b, "VV">> \in srcDisk
               /\ <<b, "VV">> \notin created_files
        /\ mainpc = "returned"

\* C4: for an active (tile, pol) whose listed sources are all missing (or whose
\* list is empty or absent) neither gdalbuildvrt nor the crop is invoked, no
\* error is raised and no output file is produced.
C4_AllMissingShortCircuits ==
    \A t \in Tiles : \A i \in PolIdxs :
        (Active(t) /\ MergeList(t, i) = <<>>) =>
            /\ \A c \in vrtCalls : ~(c.tile = t /\ c.pol = polarizations[i])
            /\ <<t, polarizations[i]>> \notin cropCalls
            /\ <<t, polarizations[i]>> \notin tifDisk
            /\ (polIdx[t] = i => exc[t] = "none")

\* a tile with a contributor list of which, for each pol, some source is on disk
WellFormed(t) ==
    /\ Active(t)
    /\ \A i \in PolIdxs : MergeList(t, i) # <<>>

\* C5: when the reprojection step of one task fails, any other task whose own
\* tool invocations do not fail, and which starts no reprojection of its own,
\* still completes successfully, also when it shares a source with the failed task.
C5_FailureIsolation ==
    \A a \in Tiles : \A b \in Tiles \ {a} :
        ( /\ failedAt[a] \in {"tempfile", "warp", "rename"}
          /\ pc[b] = "done"
          /\ WellFormed(b)
          /\ ~envFault[b]
          /\ failedAt[b] # "tempfile" )
        => exc[b] = "none"

\* the reprojected paths of the sources the active tiles refer to
ReferencedPaths ==
    UNION {Range(MergeList(t, i)) : t \in {u \in Tiles : Active(u)}, i \in PolIdxs}

\* C6: a run in which no reprojected file pre-exists and every tool succeeds
\* ends without error, with exactly one reprojected file per distinct source
\* raster the active tiles refer to and one final raster per (active tile, pol).
C6_RunCreatesAllOutputs ==
    ( /\ Finished
      /\ preReproj = {}
      /\ \A t \in Tiles : ~envFault[t]
      /\ \A t \in Tiles : Active(t) => WellFormed(t) )
    => /\ mainpc = "returned"
       /\ reprojDisk = ReferencedPaths
       /\ tifDisk = {tp \in Tiles \X Pols : Active(tp[1])}

\* C7: once create_vrt_mosaic has returned, the mosaic of each channel was built
\* if and only if the directory holds a file with that channel's suffix.
C7_ChannelsIndependent ==
    mospc = "returned" =>
        \A pol \in Pols : (pol \in builtVrt) <=> (TileFiles(pol) # {})

C9_ReturnsAfterAllTasks ==
    Finished => \A t \in Tiles : pc[t] = "done"

\* the first future has failed, its exception is on its way out of the with
\* block, and another task is still queued or running
C9_Witness ==
    /\ mainpc = "exit"
    /\ mainExc # "none"
    /\ \E t \in Tiles : pc[t] \notin {"unsubmitted", "done"}

====
